---- MODULE Spec2Model ----
(***************************************************************************)
(* The scoped configuration store of src/model/resnet_config.py: class     *)
(* Config with its nested class Scope.  A Config is a stack of Scopes      *)
(* (index 0 of the Python list = first element of the sequence here), each *)
(* Scope being a dict with a name.  Every operation first calls            *)
(* _pop_stale, which compares the name of the top scope with the name of   *)
(* the current TensorFlow variable scope using str.startswith.             *)
(*                                                                         *)
(* Paths are sequences of one-character strings, so that str.startswith is *)
(* a real prefix test on characters ("a" is a string prefix of "aa" although*)
(* "aa" is not a child of "a" in the hierarchy, exactly like "foo" and     *)
(* "foobar").                                                              *)
(***************************************************************************)
EXTENDS Integers, Sequences, FiniteSets, TLC

VARIABLES stack, cur, last, twin, extra, pc, outer, inner

vars == <<stack, cur, last, twin, extra, pc, outer, inner>>

\* ------------------------------------------------------------------ bounds
\* longest variable-scope name, in characters, the environment reports
MaxPathLen == 3

\* deepest stack explored: a write that would push beyond it is not taken
MaxStack == 3

\* ------------------------------------------------------- the value universe
\* names a variable scope can be given in the general model
Names == { <<"a">>, <<"a", "a">> }

Keys == { "hello", "bar" }

Vals == { 1, 2 }

Foo == <<"f", "o", "o">>

Meow == <<"m", "e", "o", "w">>

\* names the two nested scopes of the __main__ test are drawn from
TestNames == { Foo, Meow, <<"a">> }

\* p + "/" + n, the name tf gives to scope n opened inside scope p
Join(p, n) == IF p = <<>> THEN n ELSE p \o <<"/">> \o n

RECURSIVE PathsOfDepth(_)
PathsOfDepth(d) ==
    IF d = 0 THEN { <<>> }
    ELSE LET S == PathsOfDepth(d - 1)
         IN  S \cup { Join(p, n) : p \in S, n \in Names }

\* every variable-scope name of at most MaxPathLen characters
Paths == { p \in PathsOfDepth(MaxPathLen) : Len(p) <= MaxPathLen }

\* ------------------------------------------------------------------ Scope
EmptyDict == [k \in {} |-> 0]

\* Scope.__init__: an empty dict carrying a name
Scope(name) == [name |-> name, entries |-> EmptyDict]

\* str.startswith
StartsWith(s, prefix) ==
    /\ Len(prefix) <= Len(s)
    /\ SubSeq(s, 1, Len(prefix)) = prefix

\* Scope.contains with receiver and argument exchanged:
\* self.name.startswith(var_scope_name)
ScopeContains_Swapped(scope, var_scope_name) ==
    StartsWith(scope.name, var_scope_name)

\* Scope.contains
ScopeContains(scope, var_scope_name) == StartsWith(var_scope_name, scope.name)

\* ----------------------------------------------------------------- Config
\* _pop_stale with its loop body never run
PopStale_Never(s, var_scope_name) == s

\* _pop_stale with an if in place of the while
PopStale_Once(s, var_scope_name) ==
    IF s = <<>> THEN <<>>
    ELSE IF ScopeContains(Head(s), var_scope_name) THEN s
    ELSE Tail(s)

\* _pop_stale looping while top.name != var_scope_name
RECURSIVE PopStale_NotEqual(_, _)
PopStale_NotEqual(s, var_scope_name) ==
    IF s = <<>> THEN <<>>
    ELSE IF Head(s).name = var_scope_name THEN s
    ELSE PopStale_NotEqual(Tail(s), var_scope_name)

\* Config._pop_stale; the empty sequence stands for the IndexError that
\* self.stack[0] raises once the list is empty
RECURSIVE PopStale(_, _)
PopStale(s, var_scope_name) ==
    IF s = <<>> THEN <<>>
    ELSE IF ScopeContains(Head(s), var_scope_name) THEN s
    ELSE PopStale(Tail(s), var_scope_name)

\* the for-loop shared by __getitem__ and __contains__: index of the first
\* scope, from stack[0] on, whose dict has the name; 0 when there is none
RECURSIVE FirstWith(_, _, _)
FirstWith(st, name, i) ==
    IF i > Len(st) THEN 0
    ELSE IF name \in DOMAIN st[i].entries THEN i
    ELSE FirstWith(st, name, i + 1)

\* Config.__getitem__ as a function of the stack and the current path
GetItem(s, c, name) ==
    LET st == PopStale(s, c)
        i  == FirstWith(st, name, 1)
    IN  IF st = <<>> THEN [exc |-> "IndexError", val |-> 0]
        ELSE IF i = 0 THEN [exc |-> "KeyError", val |-> 0]
        ELSE [exc |-> "none", val |-> st[i].entries[name]]

\* Config.__contains__
Contains(s, c, name) == FirstWith(PopStale(s, c), name, 1) # 0

\* Python's list indexing with a non-positive index -i, as a 1-based index
PyIndex(st, i) == IF i = 0 THEN 1 ELSE Len(st) - i + 1

\* the loop of Config.to_dict: cs = self.stack[-i]; out[name] = cs[name]
RECURSIVE ToDictLoop(_, _, _)
ToDictLoop(st, i, out) ==
    IF i >= Len(st) THEN out
    ELSE ToDictLoop(st, i + 1, st[PyIndex(st, i)].entries @@ out)

\* Config.to_dict
ToDict(s, c) == ToDictLoop(PopStale(s, c), 0, EmptyDict)

\* __setitem__ replacing the dict of the top scope by {name: value}
SetItem_Replace(s, c, name, value) ==
    LET st == PopStale(s, c)
    IN  IF st = <<>> THEN [stack |-> st, exc |-> "IndexError"]
        ELSE IF ~ScopeContains(Head(st), c)
             THEN [stack |-> st, exc |-> "AssertionError"]
        ELSE LET pushed == IF Head(st).name # c THEN <<Scope(c)>> \o st ELSE st
                 top    == [Head(pushed) EXCEPT !.entries = (name :> value)]
             IN  [stack |-> <<top>> \o Tail(pushed), exc |-> "none"]

\* __setitem__ without the push of a scope for the current path
SetItem_NoPush(s, c, name, value) ==
    LET st == PopStale(s, c)
    IN  IF st = <<>> THEN [stack |-> st, exc |-> "IndexError"]
        ELSE IF ~ScopeContains(Head(st), c)
             THEN [stack |-> st, exc |-> "AssertionError"]
        ELSE LET top == [Head(st) EXCEPT !.entries = (name :> value) @@ @]
             IN  [stack |-> <<top>> \o Tail(st), exc |-> "none"]

\* __setitem__ pushing a scope whatever the name of the top scope is
SetItem_PushAlways(s, c, name, value) ==
    LET st == PopStale(s, c)
    IN  IF st = <<>> THEN [stack |-> st, exc |-> "IndexError"]
        ELSE IF ~ScopeContains(Head(st), c)
             THEN [stack |-> st, exc |-> "AssertionError"]
        ELSE LET pushed == <<Scope(c)>> \o st
                 top    == [Head(pushed) EXCEPT !.entries = (name :> value) @@ @]
             IN  [stack |-> <<top>> \o Tail(pushed), exc |-> "none"]

\* Config.__setitem__
SetItem(s, c, name, value) ==
    LET st == PopStale(s, c)
    IN  IF st = <<>> THEN [stack |-> st, exc |-> "IndexError"]
        ELSE IF ~ScopeContains(Head(st), c)
             THEN [stack |-> st, exc |-> "AssertionError"]
        ELSE LET pushed == IF Head(st).name # c THEN <<Scope(c)>> \o st ELSE st
                 top    == [Head(pushed) EXCEPT !.entries = (name :> value) @@ @]
             IN  [stack |-> <<top>> \o Tail(pushed), exc |-> "none"]

\* set_default without its test of name in self
SetDefault_Always(s, c, name, value) == SetItem(s, c, name, value)

\* Config.set_default
SetDefault(s, c, name, value) ==
    LET st == PopStale(s, c)
    IN  IF st = <<>> THEN [stack |-> st, exc |-> "IndexError"]
        ELSE IF Contains(s, c, name) THEN [stack |-> st, exc |-> "none"]
        ELSE SetItem(st, c, name, value)

\* Config.__init__: the stack holds the root scope, whose dict is empty
\* because the loop over FLAGS is commented out
InitStack == << Scope(<<>>) >>

\* ------------------------------------------------- record of the last call
Call(op, key, val, exc, ret, has, out, popped, pushed) ==
    [op |-> op, key |-> key, val |-> val, exc |-> exc, ret |-> ret,
     has |-> has, out |-> out, popped |-> popped, pushed |-> pushed]

NoCall == Call("init", "", 0, "none", 0, FALSE, EmptyDict, 0, FALSE)

\* number of scopes _pop_stale removes
Popped(s, c) == Len(s) - Len(PopStale(s, c))

\* ------------------------------------------------------- the general model
Init ==
    /\ stack = InitStack
    /\ cur = <<>>
    /\ last = NoCall
    /\ twin = InitStack
    /\ extra = "none"
    /\ pc = 0
    /\ outer = <<>>
    /\ inner = <<>>

\* the host enters or leaves variable scopes: the name it reports changes
ChangePath(p) ==
    /\ p # cur
    /\ cur' = p
    /\ UNCHANGED <<stack, last, twin, extra, pc, outer, inner>>

\* c[name]
Get(name) ==
    /\ stack' = PopStale(stack, cur)
    /\ last' = LET r == GetItem(stack, cur, name)
               IN  Call("get", name, 0, r.exc, r.val, FALSE, EmptyDict,
                        Popped(stack, cur), FALSE)
    /\ UNCHANGED <<cur, twin, extra, pc, outer, inner>>

\* name in c
Has(name) ==
    /\ stack' = PopStale(stack, cur)
    /\ last' = Call("contains", name, 0,
                    IF PopStale(stack, cur) = <<>> THEN "IndexError" ELSE "none",
                    0, Contains(stack, cur, name), EmptyDict,
                    Popped(stack, cur), FALSE)
    /\ UNCHANGED <<cur, twin, extra, pc, outer, inner>>

\* c.to_dict()
Flatten ==
    /\ stack' = PopStale(stack, cur)
    /\ last' = Call("to_dict", "", 0,
                    IF PopStale(stack, cur) = <<>> THEN "IndexError" ELSE "none",
                    0, FALSE, ToDict(stack, cur), Popped(stack, cur), FALSE)
    /\ UNCHANGED <<cur, twin, extra, pc, outer, inner>>

\* c[name] = value
Set(name, value) ==
    /\ Len(SetItem(stack, cur, name, value).stack) <= MaxStack
    /\ LET r == SetItem(stack, cur, name, value)
       IN  /\ stack' = r.stack
           /\ last' = Call("set", name, value, r.exc, 0, FALSE, EmptyDict,
                           Popped(stack, cur),
                           Len(r.stack) > Len(PopStale(stack, cur)))
    /\ UNCHANGED <<cur, twin, extra, pc, outer, inner>>

\* c.set_default(name, value)
Default(name, value) ==
    /\ Len(SetDefault(stack, cur, name, value).stack) <= MaxStack
    /\ LET r == SetDefault(stack, cur, name, value)
       IN  /\ stack' = r.stack
           /\ last' = Call("set_default", name, value, r.exc, 0,
                           Contains(stack, cur, name), EmptyDict,
                           Popped(stack, cur),
                           Len(r.stack) > Len(PopStale(stack, cur)))
    /\ UNCHANGED <<cur, twin, extra, pc, outer, inner>>

Next ==
    \/ \E p \in Paths : ChangePath(p)
    \/ \E k \in Keys : Get(k)
    \/ \E k \in Keys : Has(k)
    \/ Flatten
    \/ \E k \in Keys, v \in Vals : Set(k, v)
    \/ \E k \in Keys, v \in Vals : Default(k, v)

Spec == Init /\ [][Next]_vars

\* ------------------------------------------------ two runs, side by side
\* stack is the store of a run, twin the store of a run that makes the same
\* writes under the same variable scopes but not the extra reads.

TwinSet(name, value) ==
    /\ Len(SetItem(stack, cur, name, value).stack) <= MaxStack
    /\ Len(SetItem(twin, cur, name, value).stack) <= MaxStack
    /\ stack' = SetItem(stack, cur, name, value).stack
    /\ twin' = SetItem(twin, cur, name, value).stack
    /\ UNCHANGED <<cur, last, extra, pc, outer, inner>>

TwinDefault(name, value) ==
    /\ Len(SetDefault(stack, cur, name, value).stack) <= MaxStack
    /\ Len(SetDefault(twin, cur, name, value).stack) <= MaxStack
    /\ stack' = SetDefault(stack, cur, name, value).stack
    /\ twin' = SetDefault(twin, cur, name, value).stack
    /\ UNCHANGED <<cur, last, extra, pc, outer, inner>>

\* a get, contains or to_dict both runs make: each store runs _pop_stale
CommonRead ==
    /\ stack' = PopStale(stack, cur)
    /\ twin' = PopStale(twin, cur)
    /\ UNCHANGED <<cur, last, extra, pc, outer, inner>>

\* the loop condition of _pop_stale, on a stack that is not empty
StaleTop(s, c) == s # <<>> /\ ~ScopeContains(Head(s), c)

\* a get, contains or to_dict only the first run makes; extra remembers
\* whether such a read was ever made while the top scope was stale
ExtraRead ==
    /\ stack' = PopStale(stack, cur)
    /\ extra' = IF extra = "evicting" \/ StaleTop(stack, cur)
                THEN "evicting" ELSE "pure"
    /\ UNCHANGED <<cur, last, twin, pc, outer, inner>>

TwinNext ==
    \/ \E p \in Paths : ChangePath(p)
    \/ \E k \in Keys, v \in Vals : TwinSet(k, v)
    \/ \E k \in Keys, v \in Vals : TwinDefault(k, v)
    \/ CommonRead
    \/ ExtraRead

SpecTwin == Init /\ [][TwinNext]_vars

\* ------------------------------------------------------ the __main__ test
\* True is the integer 1 in Python (True == 1, and it is truthy)
PyTrue == 1

Stmt(kind, key, val) == [kind |-> kind, key |-> key, val |-> val]

\* the statements of the test, in program order
Prog == <<
    Stmt("set", "hello", 1),
    Stmt("assert_eq", "hello", 1),
    Stmt("enter_outer", "", 0),
    Stmt("set_default", "bar", 10),
    Stmt("set", "bar", 2),
    Stmt("assert_eq", "bar", 2),
    Stmt("assert_eq", "hello", 1),
    Stmt("set_default", "mario", PyTrue),
    Stmt("enter_inner", "", 0),
    Stmt("set", "dog", 3),
    Stmt("assert_eq", "dog", 3),
    Stmt("assert_eq", "bar", 2),
    Stmt("assert_eq", "hello", 1),
    Stmt("assert_true", "mario", 0),
    Stmt("exit", "", 0),
    Stmt("assert_raises", "dog", 0),
    Stmt("assert_eq", "bar", 2),
    Stmt("assert_eq", "hello", 1),
    Stmt("exit", "", 0) >>

Done == Len(Prog) + 1

\* the program died of an AssertionError or an uncaught exception
Failed == 0 - 1

AtStmt(kind) == pc \in 1..Len(Prog) /\ Prog[pc].kind = kind

\* the name of the enclosing variable scope, restored when a with-block ends
RECURSIVE Parent(_)
Parent(p) ==
    IF p = <<>> THEN <<>>
    ELSE IF p[Len(p)] = "/" THEN SubSeq(p, 1, Len(p) - 1)
    ELSE Parent(SubSeq(p, 1, Len(p) - 1))

MainInit ==
    /\ stack = InitStack
    /\ cur = <<>>
    /\ last = NoCall
    /\ twin = InitStack
    /\ extra = "none"
    /\ pc = 1
    /\ outer \in TestNames
    /\ inner \in TestNames

\* c[key] = val
MainSet ==
    /\ AtStmt("set")
    /\ LET r == SetItem(stack, cur, Prog[pc].key, Prog[pc].val)
       IN  /\ stack' = r.stack
           /\ pc' = IF r.exc = "none" THEN pc + 1 ELSE Failed
    /\ UNCHANGED <<cur, last, twin, extra, outer, inner>>

\* c.set_default(key, val)
MainSetDefault ==
    /\ AtStmt("set_default")
    /\ LET r == SetDefault(stack, cur, Prog[pc].key, Prog[pc].val)
       IN  /\ stack' = r.stack
           /\ pc' = IF r.exc = "none" THEN pc + 1 ELSE Failed
    /\ UNCHANGED <<cur, last, twin, extra, outer, inner>>

\* assert c[key] == val
MainAssertEq ==
    /\ AtStmt("assert_eq")
    /\ LET r == GetItem(stack, cur, Prog[pc].key)
       IN  /\ stack' = PopStale(stack, cur)
           /\ pc' = IF r.exc = "none" /\ r.val = Prog[pc].val
                    THEN pc + 1 ELSE Failed
    /\ UNCHANGED <<cur, last, twin, extra, outer, inner>>

\* assert c[key]
MainAssertTrue ==
    /\ AtStmt("assert_true")
    /\ LET r == GetItem(stack, cur, Prog[pc].key)
       IN  /\ stack' = PopStale(stack, cur)
           /\ pc' = IF r.exc = "none" /\ r.val # 0 THEN pc + 1 ELSE Failed
    /\ UNCHANGED <<cur, last, twin, extra, outer, inner>>

\* assert_raises(KeyError, lambda: c[key])
MainAssertRaises ==
    /\ AtStmt("assert_raises")
    /\ LET r == GetItem(stack, cur, Prog[pc].key)
       IN  /\ stack' = PopStale(stack, cur)
           /\ pc' = IF r.exc = "KeyError" THEN pc + 1 ELSE Failed
    /\ UNCHANGED <<cur, last, twin, extra, outer, inner>>

\* with tf.compat.v1.variable_scope(name):
MainEnter ==
    /\ \/ AtStmt("enter_outer") /\ cur' = Join(cur, outer)
       \/ AtStmt("enter_inner") /\ cur' = Join(cur, inner)
    /\ pc' = pc + 1
    /\ UNCHANGED <<stack, last, twin, extra, outer, inner>>

\* the end of a with-block
MainExit ==
    /\ AtStmt("exit")
    /\ cur' = Parent(cur)
    /\ pc' = pc + 1
    /\ UNCHANGED <<stack, last, twin, extra, outer, inner>>

MainNext ==
    \/ MainSet
    \/ MainSetDefault
    \/ MainAssertEq
    \/ MainAssertTrue
    \/ MainAssertRaises
    \/ MainEnter
    \/ MainExit

SpecMain == MainInit /\ [][MainNext]_vars

\* ------------------------------------------------------------- vocabulary
\* the bottom of the stack
Root(s) == s[Len(s)]

\* c names a scope nested, directly or not, inside the scope named p
IsNestedIn(c, p) == c # p /\ (p = <<>> \/ StartsWith(c, p \o <<"/">>))

\* c is neither n nor nested inside n
Outside(c, n) == c # n /\ ~IsNestedIn(c, n)

\* t is what is left of s after popping some scopes off its top
IsSuffix(t, s) ==
    /\ Len(t) <= Len(s)
    /\ t = SubSeq(s, Len(s) - Len(t) + 1, Len(s))

Found(v) == [exc |-> "none", val |-> v]

\* the positions of the stack whose dict has key k
HoldersOf(k) == { i \in 1..Len(stack) : k \in DOMAIN stack[i].entries }

\* the step is a call of op: the path is the same and last' describes it
Did(op) == cur' = cur /\ last'.op = op

ReadStep == Did("get") \/ Did("contains") \/ Did("to_dict")

WriteStep == Did("set") \/ Did("set_default")

\* ------------------------------------------------------------------- C1
RootAtBottom ==
    /\ stack # <<>>
    /\ Root(stack).name = <<>>
    /\ \A i \in 1..(Len(stack) - 1) : stack[i].name # <<>>

RootKeysVisible ==
    \A k \in DOMAIN Root(stack).entries : \A p \in Paths :
        /\ Contains(stack, p, k)
        /\ GetItem(stack, p, k).exc = "none"

RootKeysKept ==
    \A k \in Keys :
        (\/ k \in DOMAIN Root(stack).entries
         \/ (cur = <<>> /\ Did("set") /\ last'.key = k)
         \/ (cur = <<>> /\ Did("set_default") /\ last'.key = k))
        => (stack' # <<>> /\ k \in DOMAIN Root(stack').entries)

\* C1 (root persistence): the root scope, named "", is never popped and is
\* always the last element of the stack, and a key written while the
\* current path is "" is from then on in the root's dict, where contains
\* finds it and get does not raise, whatever the current path is.
C1_RootPersistence ==
    /\ [](RootAtBottom /\ RootKeysVisible)
    /\ [][RootKeysKept]_vars

\* a key of the root is read, after an eviction, from a nested path
C1_Witness ==
    /\ last.op = "get" /\ last.exc = "none" /\ last.popped >= 1
    /\ cur # <<>>
    /\ Len(stack) >= 2
    /\ HoldersOf(last.key) = {Len(stack)}

\* ------------------------------------------------------------------- C2
\* C2 (shadowing): when the top scope p holds k = v1 (k was set to v1 while
\* the current path was p) and set(k, v2) is executed while the current
\* path is a path p/q nested in p, then get(k) at p/q returns v2 and get(k)
\* once the current path is p again returns v1.
C2_Shadowing ==
    [][\A k \in Keys, v1 \in Vals, v2 \in Vals :
          (/\ Did("set") /\ last'.key = k /\ last'.val = v2
           /\ IsNestedIn(cur, Head(stack).name)
           /\ k \in DOMAIN Head(stack).entries
           /\ Head(stack).entries[k] = v1)
          => /\ GetItem(stack', cur, k) = Found(v2)
             /\ GetItem(stack', Head(stack).name, k) = Found(v1)]_vars

\* k = 1 in scope p = "a", shadowed by k = 2 written in scope "a/a"
C2_Witness ==
    /\ last.op = "set" /\ last.pushed /\ last.val = 2
    /\ Len(stack) = 3
    /\ cur = stack[1].name
    /\ stack[2].name # <<>>
    /\ IsNestedIn(stack[1].name, stack[2].name)
    /\ last.key \in DOMAIN stack[2].entries
    /\ stack[2].entries[last.key] = 1
    /\ stack[1].entries[last.key] = 2

\* ------------------------------------------------------------------- C3
\* C3 (stale eviction on read): if key k is held only by the scope of a
\* nested path n and the current path is outside n (neither n nor nested
\* in n), then contains(k) is false and get(k) raises KeyError.
C3_StaleEviction ==
    \A k \in Keys, n \in Paths \ {<<>>} :
        (/\ HoldersOf(k) # {}
         /\ \A i \in HoldersOf(k) : stack[i].name = n
         /\ Outside(cur, n))
        => /\ ~Contains(stack, cur, k)
           /\ GetItem(stack, cur, k).exc = "KeyError"

\* ------------------------------------------------------------------- C4
\* C4 (flatten correctness): to_dict() has exactly the keys contains finds
\* and gives each of them the value get returns.
C4_Flatten ==
    LET out == ToDict(stack, cur)
    IN  /\ DOMAIN out = { k \in Keys : Contains(stack, cur, k) }
        /\ \A k \in DOMAIN out : GetItem(stack, cur, k) = Found(out[k])

\* ------------------------------------------------------------------- C5
\* C5 (set_default): after set_default(k, v), get(k) returns the value that
\* was visible before when k was visible, and then no entry has changed and
\* no scope was pushed (only stale scopes are gone); it returns v when k was
\* not visible, and then k = v is in the scope of the current path.
C5_SetDefault ==
    [][\A k \in Keys, v \in Vals :
          (Did("set_default") /\ last'.key = k /\ last'.val = v) =>
             IF GetItem(stack, cur, k).exc = "none"
             THEN /\ GetItem(stack', cur, k) = GetItem(stack, cur, k)
                  /\ IsSuffix(stack', stack)
             ELSE /\ GetItem(stack', cur, k) = Found(v)
                  /\ Head(stack').name = cur
                  /\ k \in DOMAIN Head(stack').entries
                  /\ Head(stack').entries[k] = v]_vars

\* set_default found the key in an outer scope, with another value
C5_Witness ==
    /\ last.op = "set_default" /\ last.has
    /\ Len(stack) >= 2
    /\ last.key \notin DOMAIN Head(stack).entries
    /\ GetItem(stack, cur, last.key).exc = "none"
    /\ GetItem(stack, cur, last.key).val # last.val

\* ------------------------------------------------------------------- C6
\* C6 (documented scenario): every assertion of the __main__ test holds
\* when the test reaches it, so the test never dies.
C6_Scenario ==
    /\ pc # Failed
    /\ AtStmt("assert_eq") =>
          GetItem(stack, cur, Prog[pc].key) = Found(Prog[pc].val)
    /\ AtStmt("assert_true") =>
          GetItem(stack, cur, Prog[pc].key) = Found(PyTrue)
    /\ AtStmt("assert_raises") =>
          GetItem(stack, cur, Prog[pc].key).exc = "KeyError"

\* the test as documented, with scopes foo and meow, ran to its end
C6_Witness == pc = Done /\ outer = Foo /\ inner = Meow /\ Len(stack) = 2

\* ------------------------------------------------------------------- C7
\* C7 (the assertion of set is unreachable): no call ends in the
\* AssertionError of __setitem__ or in the IndexError of an emptied stack;
\* for whatever path the host reports, eviction leaves a non-empty stack
\* whose top scope contains that path.
C7_AssertHolds ==
    /\ last.exc \notin {"AssertionError", "IndexError"}
    /\ \A p \in Paths :
          /\ PopStale(stack, p) # <<>>
          /\ ScopeContains(Head(PopStale(stack, p)), p)
          /\ \A k \in Keys, v \in Vals : SetItem(stack, p, k, v).exc = "none"

\* a set that first evicted two stale scopes
C7_Witness == last.op = "set" /\ last.popped >= 2 /\ last.exc = "none"

\* ------------------------------------------------------------------- C8
\* each scope's name is a strict prefix of the name of the scope above it
IsChain(s) ==
    \A i \in 1..(Len(s) - 1) :
        s[i + 1].name # s[i].name /\ StartsWith(s[i].name, s[i + 1].name)

AllContain(s, c) == \A i \in 1..Len(s) : ScopeContains(s[i], c)

\* C8 (no stale scope is used): the stack is always a chain of strict
\* prefixes; after the eviction step of an operation, and after the whole
\* operation, every scope of the stack has a name that is a prefix of the
\* current path.
C8_NoStaleScope ==
    /\ [](IsChain(stack) /\ AllContain(PopStale(stack, cur), cur))
    /\ [][(ReadStep \/ WriteStep) => AllContain(stack', cur)]_vars

\* a set evicted a stale scope, kept two scopes and pushed a third
C8_Witness ==
    /\ last.op = "set" /\ last.exc = "none" /\ last.pushed
    /\ last.popped >= 1
    /\ Len(stack) = 3

\* ------------------------------------------------------------------- C9
\* C9 (scope lifecycle): a read only pops scopes; a set pushes exactly one
\* scope, named by the current path and holding only the written key, when
\* the top scope left by eviction has another name, and pushes nothing when
\* it has that name; set_default pushes only when it writes; a write
\* changes no entry below the top scope.
C9_Lifecycle ==
    [][/\ ReadStep => IsSuffix(stack', stack)
       /\ \A k \in Keys, v \in Vals :
             (WriteStep /\ last'.key = k /\ last'.val = v) =>
                LET st == PopStale(stack, cur)
                IN  /\ Did("set") => (Len(stack') > Len(st) <=> Head(st).name # cur)
                    /\ Len(stack') > Len(st) =>
                          /\ Head(st).name # cur
                          /\ stack' = <<[name |-> cur, entries |-> (k :> v)]>> \o st
                          /\ Did("set") \/ ~Contains(stack, cur, k)
                    /\ Len(stack') <= Len(st) =>
                          /\ Len(stack') = Len(st)
                          /\ Tail(stack') = Tail(st)
                          /\ Head(stack').name = Head(st).name]_vars

\* a set that pushed a scope after evicting a stale one
C9_Witness ==
    /\ last.op = "set" /\ last.pushed /\ last.popped >= 1
    /\ Head(stack).name = cur

\* ------------------------------------------------------------------ C10
\* what the next get, contains or to_dict returns, in the two runs
SameResults ==
    /\ \A k \in Keys :
          /\ GetItem(stack, cur, k) = GetItem(twin, cur, k)
          /\ Contains(stack, cur, k) = Contains(twin, cur, k)
    /\ ToDict(stack, cur) = ToDict(twin, cur)

\* C10 as claimed (reads are observationally pure): the run with the extra
\* reads and the run without them return the same results.
C10_ReadsPure == SameResults

\* C10 as amended: as long as every extra read was made while the top scope
\* contained the current path, the two stores are equal and the two runs
\* return the same results.
C10_PureUnlessEvicting == extra # "evicting" => (stack = twin /\ SameResults)

\* an extra read was made, none evicted, and a nested key is visible
C10_Witness ==
    /\ extra = "pure"
    /\ Len(PopStale(stack, cur)) >= 2
    /\ \E k \in Keys : k \in DOMAIN Head(PopStale(stack, cur)).entries

====
